---- MODULE Spec2Model ----
(***************************************************************************)
(* Provider pairing and relay dispatch engine of poc-lavap-rs.              *)
(*                                                                          *)
(* Tasks: main (main.rs), the pairing scheduler sdk_pairing_task            *)
(* (pairing.rs) with its probe tasks, and one handle_query task per         *)
(* inbound request (server.rs).  Shared state: SDKPairingState behind one   *)
(* tokio Mutex, ConsumerSessionContext behind another.  Every await of the  *)
(* source is a step boundary; the code between two awaits is one step.      *)
(***************************************************************************)
EXTENDS Integers, Sequences, FiniteSets, Bags, TLC

\* ------------------------------------------------------------------ bounds

\* refresh cycles the scheduler may start
MaxCycles == 2
\* inbound requests accepted by the listener
MaxDispatch == 2
\* get_or_create_session / update_session calls of the ledger specification
MaxCalls == 4
\* providers in a discovery document of the ranking specification
MaxProbes == 3
\* get_client calls of the client specification
MaxGets == 3
\* providers in a discovery document of the stake specification
MaxProviders == 12

\* ------------------------------------------------------------ program data

MAX_PROVIDERS_TO_TEST == 10
\* cost added to cu_sum per relay
CU_PER_RELAY == 10
\* relay_num of a fresh session
FIRST_RELAY_NUM == 1
\* time_left_to_next_pairing forced at the start of a refresh
RETRY_SECONDS == 1

\* handle_query tasks that can be in flight at once
Dispatchers == {"d1", "d2"}
\* elapsed probe times, in time units
Latencies == {1}

ProviderA == [address |-> "pA", stake |-> 5, endpoints |-> 1]
ProviderB == [address |-> "pB", stake |-> 7, endpoints |-> 1]
Addresses == {"pA", "pB"}

\* a numeric field of the discovery document: a string that parses, or not
Num(n) == [valid |-> TRUE, n |-> n]
NotANumber == [valid |-> FALSE, n |-> 0]

\* discovery documents that carry a `pairing` object
Documents ==
    { [current_epoch |-> Num(3), time_left_to_next_pairing |-> Num(1),
       providers |-> <<ProviderA, ProviderB>>],
      [current_epoch |-> Num(4), time_left_to_next_pairing |-> NotANumber,
       providers |-> <<>>] }

\* ------------------------------------------------------------------- state

VARIABLES
    psParams,        \* SDKPairingState.params
    psProviders,     \* SDKPairingState.providers
    psRanked,        \* SDKPairingState.ranked_providers
    psLastUpdated,   \* SDKPairingState.last_updated (logical instant)
    wcycle,          \* history: the refresh cycle that last replaced each field
    stateLock,       \* owner of the SDKPairingState mutex
    ctxLock,         \* owner of the ConsumerSessionContext mutex
    sched,           \* sdk_pairing_task: position and locals
    cycle,           \* refresh cycles started so far
    shutdownChan,    \* messages in the shutdown mpsc channel (capacity 1)
    mainPc,          \* main: position
    ctxRanked,       \* ConsumerSessionContext.ranked_providers
    sessions,        \* ConsumerSessionContext.sessions
    updates,         \* history: update_session calls that hit an entry
    q,               \* handle_query tasks: position and locals
    dispatched,      \* requests accepted so far
    envelopes,       \* history: bag of the RelaySession descriptors built
    calls,           \* ledger and serialization specifications: the calls made so far
    handle,          \* client specification: one RankedProvider.client
    getters          \* client specification: get_client calls in flight

vars == <<psParams, psProviders, psRanked, psLastUpdated, wcycle, stateLock,
          ctxLock, sched, cycle, shutdownChan, mainPc, ctxRanked, sessions,
          updates, q, dispatched, envelopes, calls, handle, getters>>

pairingVars == <<psParams, psProviders, psRanked, psLastUpdated, wcycle>>
schedVars == <<sched, cycle>>
ctxVars == <<ctxRanked, sessions, updates>>
queryVars == <<q, dispatched, envelopes>>
clientVars == <<handle, getters>>

\* ----------------------------------------------------------- pure functions

\* variant: a string that does not parse is read as 1
ParseNumOrOne(raw) == IF raw.valid THEN raw.n ELSE 1

\* str.parse::<i64>().unwrap_or(0)
ParseNum(raw) == IF raw.valid THEN raw.n ELSE 0

\* str.parse::<u64>().unwrap_or(0): a minus sign does not parse
ParseU64(raw) == IF raw.valid /\ raw.n >= 0 THEN raw.n ELSE 0

\* pairing[key].as_str().unwrap_or(""): a key the document does not carry
\* reads as the empty string, which does not parse
RawField(pairing, key) ==
    IF key \in DOMAIN pairing THEN pairing[key] ELSE NotANumber

parse_sdk_pairing_params(doc) ==
    [current_epoch |-> ParseNum(RawField(doc, "current_epoch")),
     time_left_to_next_pairing |->
         ParseU64(RawField(doc, "time_left_to_next_pairing")),
     spec_last_updated_block |->
         ParseU64(RawField(doc, "spec_last_updated_block")),
     block_of_next_pairing |->
         ParseU64(RawField(doc, "block_of_next_pairing"))]

RECURSIVE InsertByStake(_, _)
\* x placed behind every element of s whose stake is >= x.stake
InsertByStake(s, x) ==
    IF s = <<>> THEN <<x>>
    ELSE IF Head(s).stake >= x.stake
         THEN <<Head(s)>> \o InsertByStake(Tail(s), x)
         ELSE <<x>> \o s

RECURSIVE SortByStakeDesc(_)
\* providers.sort_by(|a, b| b.stake.cmp(&a.stake)): stable, descending stake
SortByStakeDesc(s) ==
    IF s = <<>> THEN <<>>
    ELSE InsertByStake(SortByStakeDesc(SubSeq(s, 1, Len(s) - 1)), s[Len(s)])

\* variant: the last n elements are kept
TruncateKeepsTail(s, n) ==
    IF Len(s) > n THEN SubSeq(s, Len(s) - n + 1, Len(s)) ELSE s

\* providers.truncate(n)
Truncate(s, n) == IF Len(s) > n THEN SubSeq(s, 1, n) ELSE s

parse_providers(doc) ==
    Truncate(SortByStakeDesc(doc.providers), MAX_PROVIDERS_TO_TEST)

RECURSIVE InsertByLatency(_, _)
\* x placed behind every element of s whose latency is <= x.latency
InsertByLatency(s, x) ==
    IF s = <<>> THEN <<x>>
    ELSE IF Head(s).latency <= x.latency
         THEN <<Head(s)>> \o InsertByLatency(Tail(s), x)
         ELSE <<x>> \o s

\* variant: the successful probes are kept in the order they were spawned
KeepSpawnOrder(s) == s

RECURSIVE SortByLatency(_)
\* ranked_providers.sort_by(|a, b| a.latency.cmp(&b.latency)): stable
SortByLatency(s) ==
    IF s = <<>> THEN <<>>
    ELSE InsertByLatency(SortByLatency(SubSeq(s, 1, Len(s) - 1)), s[Len(s)])

RECURSIVE Successful(_)
\* filter_map of the join results: the RankedProvider of every successful probe
Successful(tasks) ==
    IF tasks = <<>> THEN <<>>
    ELSE (IF Head(tasks).status = "ok" THEN <<Head(tasks).ranked>> ELSE <<>>)
         \o Successful(Tail(tasks))

RECURSIVE SpawnProbes(_, _)
\* one probe task per provider that has a first endpoint
SpawnProbes(providers, c) ==
    IF providers = <<>> THEN <<>>
    ELSE (IF Head(providers).endpoints > 0
          THEN <<[status |-> "running",
                  ranked |-> [provider |-> Head(providers), latency |-> 0,
                              client |-> FALSE, cyc |-> c]]>>
          ELSE <<>>)
         \o SpawnProbes(Tail(providers), c)

\* outcomes of probe_provider: the probe call succeeded, the connection
\* failed, the probe call failed on an open connection, the timeout fired
ProbeOutcomes == {"ok", "connect_failed", "probe_failed", "timeout"}

NoProvider == [address |-> "", stake |-> 0, endpoints |-> 0]
NoRanked == [provider |-> NoProvider, latency |-> 0, client |-> FALSE,
             cyc |-> 0]

\* what a probe task returns: Some(RankedProvider) with the elapsed time and
\* the probe's client when probe_provider reports success, None otherwise
probe_provider(task, outcome, elapsed) ==
    IF outcome = "ok"
    THEN [status |-> "ok",
          ranked |-> [task.ranked EXCEPT !.latency = elapsed,
                                         !.client = TRUE]]
    ELSE [status |-> "failed", ranked |-> NoRanked]

\* ------------------------------------------------------------ initial state

NoParams == [current_epoch |-> 0, time_left_to_next_pairing |-> 0,
             spec_last_updated_block |-> 0, block_of_next_pairing |-> 0]

\* signal_phase is history: the phase (Waiting or Refreshing) the scheduler
\* was in when the shutdown message arrived, kept until that phase ends
SchedInit == [pc |-> "loop", sleep_left |-> 0,
              new_params |-> NoParams, providers |-> <<>>, probes |-> <<>>,
              ranked |-> <<>>, signal_phase |-> "none"]

\* the scheduler's two phases, by position
WaitingPcs == {"loop", "select"}
RefreshingPcs == {"clamp_wait", "fetch", "probing", "publish_wait",
                  "pub_providers", "pub_last_updated", "pub_ranked"}

Running == mainPc # "exited"

\* -------------------------------------------------- sdk_pairing_task

\* get_sdk_pairing_params: the lock is taken, state.params cloned and the
\* guard dropped; the select! starts the sleep of time_left_to_next_pairing
SchedParams ==
    /\ Running /\ sched.pc = "loop" /\ stateLock = "none"
    /\ sched' = [sched EXCEPT
                   !.pc = "select",
                   !.sleep_left = psParams.time_left_to_next_pairing]
    /\ UNCHANGED <<pairingVars, stateLock, ctxLock, cycle, shutdownChan,
                   mainPc, ctxVars, queryVars, calls, clientVars>>

\* one second of the sleep passes; with a message in the channel the
\* shutdown branch is ready and the task is polled before the second is over
Tick ==
    /\ Running /\ sched.pc = "select" /\ sched.sleep_left > 0
    /\ shutdownChan = 0
    /\ sched' = [sched EXCEPT !.sleep_left = @ - 1]
    /\ UNCHANGED <<pairingVars, stateLock, ctxLock, cycle, shutdownChan,
                   mainPc, ctxVars, queryVars, calls, clientVars>>

\* variant: shutdown.recv() is also polled at every await of refresh_state
PollsShutdownInRefresh(pc) ==
    pc \in {"select", "clamp_wait", "fetch", "probing", "publish_wait"}

\* the pc values at which the task polls shutdown.recv()
PollsShutdown(pc) == pc = "select"

\* select! branch shutdown.recv(): break
SchedShutdown ==
    /\ Running /\ PollsShutdown(sched.pc) /\ shutdownChan > 0
    /\ shutdownChan' = shutdownChan - 1
    /\ sched' = [sched EXCEPT !.pc = "stopped", !.signal_phase = "none"]
    /\ UNCHANGED <<pairingVars, stateLock, ctxLock, cycle, mainPc, ctxVars,
                   queryVars, calls, clientVars>>

\* select! branch sleep: refresh_state is entered
SchedSleepElapsed ==
    /\ Running /\ sched.pc = "select" /\ sched.sleep_left = 0
    /\ cycle < MaxCycles
    /\ cycle' = cycle + 1
    /\ sched' = [sched EXCEPT !.pc = "clamp_wait", !.signal_phase = "none"]
    /\ UNCHANGED <<pairingVars, stateLock, ctxLock, shutdownChan, mainPc,
                   ctxVars, queryVars, calls, clientVars>>

\* -------------------------------------------------- refresh_state

\* variant: refresh_state starts its fetch without the clamp
RefreshClampSkipped ==
    /\ Running /\ sched.pc = "clamp_wait" /\ stateLock = "none"
    /\ sched' = [sched EXCEPT !.pc = "fetch"]
    /\ UNCHANGED <<pairingVars, stateLock, ctxLock, cycle, shutdownChan,
                   mainPc, ctxVars, queryVars, calls, clientVars>>

\* the lock is taken, state_guard.params.time_left_to_next_pairing = 1,
\* drop(state_guard)
RefreshClamp ==
    /\ Running /\ sched.pc = "clamp_wait" /\ stateLock = "none"
    /\ psParams' = [psParams EXCEPT !.time_left_to_next_pairing = RETRY_SECONDS]
    /\ sched' = [sched EXCEPT !.pc = "fetch"]
    /\ UNCHANGED <<psProviders, psRanked, psLastUpdated, wcycle, stateLock,
                   ctxLock, cycle, shutdownChan, mainPc, ctxVars, queryVars,
                   calls, clientVars>>

\* variant: a failed fetch clears the published ranking
RefreshFetchFailClearsRanking ==
    /\ Running /\ sched.pc = "fetch"
    /\ psRanked' = <<>>
    /\ sched' = [sched EXCEPT !.pc = "loop", !.signal_phase = "none"]
    /\ UNCHANGED <<psParams, psProviders, psLastUpdated, wcycle, stateLock,
                   ctxLock, cycle, shutdownChan, mainPc, ctxVars, queryVars,
                   calls, clientVars>>

\* the discovery fetch fails (send error, non-200 status, undecodable body
\* or no `pairing` object): refresh_state returns Err, the loop goes on
RefreshFetchFail ==
    /\ Running /\ sched.pc = "fetch"
    /\ sched' = [sched EXCEPT !.pc = "loop", !.signal_phase = "none"]
    /\ UNCHANGED <<pairingVars, stateLock, ctxLock, cycle, shutdownChan,
                   mainPc, ctxVars, queryVars, calls, clientVars>>

\* the fetch returns one of docs, documents with a `pairing` object: params
\* and providers are parsed and one probe task per provider with an endpoint
\* is spawned
FetchReturns(docs) ==
    /\ Running /\ sched.pc = "fetch"
    /\ \E doc \in docs :
         sched' = [sched EXCEPT
                     !.pc = "probing",
                     !.new_params = parse_sdk_pairing_params(doc),
                     !.providers = parse_providers(doc),
                     !.probes = SpawnProbes(parse_providers(doc), cycle)]
    /\ UNCHANGED <<pairingVars, stateLock, ctxLock, cycle, shutdownChan,
                   mainPc, ctxVars, queryVars, calls, clientVars>>

RefreshFetchOk == FetchReturns(Documents)

\* probe task i returns from probe_provider after one of the elapsed times
ProbeReturns(latencies) ==
    /\ Running /\ sched.pc = "probing"
    /\ \E i \in 1..Len(sched.probes), outcome \in ProbeOutcomes,
          elapsed \in latencies :
         /\ sched.probes[i].status = "running"
         /\ sched' = [sched EXCEPT
                        !.probes[i] = probe_provider(@, outcome, elapsed)]
    /\ UNCHANGED <<pairingVars, stateLock, ctxLock, cycle, shutdownChan,
                   mainPc, ctxVars, queryVars, calls, clientVars>>

ProbeFinish == ProbeReturns(Latencies)

\* variant: join_all returns as soon as one task has returned
SomeProbeDone(probes) ==
    \E i \in 1..Len(probes) : probes[i].status # "running"

\* the tasks join_all waits for have all returned
AllProbesDone(probes) ==
    \A i \in 1..Len(probes) : probes[i].status # "running"

\* join_all returns; the successful probes are collected and sorted by latency
RefreshJoin ==
    /\ Running /\ sched.pc = "probing" /\ AllProbesDone(sched.probes)
    /\ sched' = [sched EXCEPT
                   !.pc = "publish_wait",
                   !.ranked = SortByLatency(Successful(sched.probes)),
                   !.probes = <<>>]
    /\ UNCHANGED <<pairingVars, stateLock, ctxLock, cycle, shutdownChan,
                   mainPc, ctxVars, queryVars, calls, clientVars>>

\* variant: the guard is dropped after the first field, the remaining
\* fields are written outside the lock
RefreshPublishParamsGuardDropped ==
    /\ Running /\ sched.pc = "publish_wait" /\ stateLock = "none"
    /\ stateLock' = "none"
    /\ psParams' = sched.new_params
    /\ wcycle' = [wcycle EXCEPT !.params = cycle]
    /\ sched' = [sched EXCEPT !.pc = "pub_providers"]
    /\ UNCHANGED <<psProviders, psRanked, psLastUpdated, ctxLock, cycle,
                   shutdownChan, mainPc, ctxVars, queryVars, calls, clientVars>>

\* second state.lock().await of refresh_state granted;
\* state_guard.params = new_params
RefreshPublishParams ==
    /\ Running /\ sched.pc = "publish_wait" /\ stateLock = "none"
    /\ stateLock' = "sched"
    /\ psParams' = sched.new_params
    /\ wcycle' = [wcycle EXCEPT !.params = cycle]
    /\ sched' = [sched EXCEPT !.pc = "pub_providers"]
    /\ UNCHANGED <<psProviders, psRanked, psLastUpdated, ctxLock, cycle,
                   shutdownChan, mainPc, ctxVars, queryVars, calls, clientVars>>

\* state_guard.providers = providers
RefreshPublishProviders ==
    /\ Running /\ sched.pc = "pub_providers"
    /\ psProviders' = sched.providers
    /\ wcycle' = [wcycle EXCEPT !.providers = cycle]
    /\ sched' = [sched EXCEPT !.pc = "pub_last_updated"]
    /\ UNCHANGED <<psParams, psRanked, psLastUpdated, stateLock, ctxLock,
                   cycle, shutdownChan, mainPc, ctxVars, queryVars, calls, clientVars>>

\* state_guard.last_updated = Instant::now()
RefreshPublishLastUpdated ==
    /\ Running /\ sched.pc = "pub_last_updated"
    /\ psLastUpdated' = cycle
    /\ wcycle' = [wcycle EXCEPT !.last_updated = cycle]
    /\ sched' = [sched EXCEPT !.pc = "pub_ranked"]
    /\ UNCHANGED <<psParams, psProviders, psRanked, stateLock, ctxLock,
                   cycle, shutdownChan, mainPc, ctxVars, queryVars, calls, clientVars>>

\* variant: publishing a ranking removes the sessions of the providers
\* that are no longer in it
RefreshPublishRankedPrunes ==
    /\ Running /\ sched.pc = "pub_ranked"
    /\ psRanked' = sched.ranked
    /\ wcycle' = [wcycle EXCEPT !.ranked_providers = cycle]
    /\ stateLock' = "none"
    /\ sched' = [sched EXCEPT !.pc = "loop", !.new_params = NoParams,
                              !.providers = <<>>, !.ranked = <<>>,
                              !.signal_phase = "none"]
    /\ sessions' = [a \in {b \in DOMAIN sessions :
                             \E i \in DOMAIN sched.ranked :
                                 sched.ranked[i].provider.address = b} |->
                        sessions[a]]
    /\ UNCHANGED <<psParams, psProviders, psLastUpdated, ctxLock, cycle,
                   shutdownChan, mainPc, ctxRanked, updates, queryVars, calls,
                   clientVars>>

\* state_guard.ranked_providers = ranked_providers; the guard is dropped at
\* the end of the block and refresh_state returns Ok
RefreshPublishRanked ==
    /\ Running /\ sched.pc = "pub_ranked"
    /\ psRanked' = sched.ranked
    /\ wcycle' = [wcycle EXCEPT !.ranked_providers = cycle]
    /\ stateLock' = "none"
    /\ sched' = [sched EXCEPT !.pc = "loop", !.new_params = NoParams,
                              !.providers = <<>>, !.ranked = <<>>,
                              !.signal_phase = "none"]
    /\ UNCHANGED <<psParams, psProviders, psLastUpdated, ctxLock, cycle,
                   shutdownChan, mainPc, ctxVars, queryVars, calls, clientVars>>

SchedulerStep ==
    \/ SchedParams \/ Tick \/ SchedShutdown \/ SchedSleepElapsed
    \/ RefreshClamp
    \/ RefreshFetchFail \/ RefreshFetchOk \/ ProbeFinish \/ RefreshJoin
    \/ RefreshPublishParams \/ RefreshPublishProviders
    \/ RefreshPublishLastUpdated \/ RefreshPublishRanked

\* ------------------------------------------------------- session ledger

NoSession == [session_id |-> 0, cu_sum |-> 0, relay_num |-> 0]
EmptyLedger == [a \in {} |-> NoSession]

\* Uuid::new_v4(): an identifier no session of the ledger carries (the
\* ledger never loses an entry, so its size numbers the calls made so far)
new_v4(ledger) == 11 + Cardinality(DOMAIN ledger)

\* variant: sessions.insert(address, new session), whatever the ledger holds
get_or_create_session_insert(ledger, address) ==
    [a \in DOMAIN ledger \cup {address} |->
        IF a = address
        THEN [session_id |-> new_v4(ledger), cu_sum |-> 0,
              relay_num |-> FIRST_RELAY_NUM]
        ELSE ledger[a]]

\* sessions.entry(address).or_insert_with(new session): the ledger afterwards
get_or_create_session(ledger, address) ==
    IF address \in DOMAIN ledger THEN ledger
    ELSE [a \in DOMAIN ledger \cup {address} |->
            IF a = address
            THEN [session_id |-> new_v4(ledger), cu_sum |-> 0,
                  relay_num |-> FIRST_RELAY_NUM]
            ELSE ledger[a]]

\* variant: only relay_num advances
update_session_no_cost(ledger, address) ==
    IF address \in DOMAIN ledger
    THEN [ledger EXCEPT ![address].relay_num = @ + 1]
    ELSE ledger

\* if let Some(session) = sessions.get_mut(address): both counters advance
update_session(ledger, address) ==
    IF address \in DOMAIN ledger
    THEN [ledger EXCEPT ![address].cu_sum = @ + CU_PER_RELAY,
                        ![address].relay_num = @ + 1]
    ELSE ledger

\* ----------------------------------------------------------- handle_query

QueryInit == [pc |-> "idle", epoch |-> 0, epoch_cyc |-> 0, top |-> NoRanked,
              session |-> NoSession, status |-> "none", connects |-> 0,
              relays |-> 0]

\* the handler has returned: its locals are gone, the response remains
Returned(status) == [QueryInit EXCEPT !.pc = "done", !.status = status]

\* the listener accepts a request and spawns its handler
NewRequest(d) ==
    /\ mainPc = "serving"
    /\ q[d].pc \in {"idle", "done"}
    /\ dispatched < MaxDispatch
    /\ dispatched' = dispatched + 1
    /\ q' = [q EXCEPT ![d] = [QueryInit EXCEPT !.pc = "ctx_wait"]]
    /\ UNCHANGED <<pairingVars, stateLock, ctxLock, schedVars, shutdownChan,
                   mainPc, ctxVars, envelopes, calls, clientVars>>

\* first context.lock().await granted
QueryCtxLock(d) ==
    /\ Running /\ q[d].pc = "ctx_wait" /\ ctxLock = "none"
    /\ ctxLock' = d
    /\ q' = [q EXCEPT ![d].pc = "state_wait"]
    /\ UNCHANGED <<pairingVars, stateLock, schedVars, shutdownChan, mainPc,
                   ctxVars, dispatched, envelopes, calls, clientVars>>

\* variant: the state guard taken for the epoch is still alive when
\* get_top_provider asks for the state lock again
QueryReadEpochKeepsStateGuard(d) ==
    /\ Running /\ q[d].pc = "state_wait" /\ stateLock = "none"
    /\ IF ctxRanked # <<>>
       THEN /\ ctxLock' = "none"
            /\ stateLock' = stateLock
            /\ q' = [q EXCEPT ![d].pc = "ctx_wait2",
                              ![d].epoch = psParams.current_epoch,
                              ![d].epoch_cyc = wcycle.params,
                              ![d].top = Head(ctxRanked)]
       ELSE /\ ctxLock' = ctxLock
            /\ stateLock' = d
            /\ q' = [q EXCEPT ![d].pc = "rank_wait",
                              ![d].epoch = psParams.current_epoch,
                              ![d].epoch_cyc = wcycle.params]
    /\ UNCHANGED <<pairingVars, schedVars, shutdownChan, mainPc,
                   ctxVars, dispatched, envelopes, calls, clientVars>>

\* context.pairing_state.lock().await is granted, epoch =
\* state.params.current_epoch is read and the state guard is dropped; then
\* get_top_provider: when the context's own ranking is not empty its first
\* element is returned and the context guard is dropped, else
\* get_ranked_providers is called
QueryReadEpoch(d) ==
    /\ Running /\ q[d].pc = "state_wait" /\ stateLock = "none"
    /\ IF ctxRanked # <<>>
       THEN /\ ctxLock' = "none"
            /\ q' = [q EXCEPT ![d].pc = "ctx_wait2",
                              ![d].epoch = psParams.current_epoch,
                              ![d].epoch_cyc = wcycle.params,
                              ![d].top = Head(ctxRanked)]
       ELSE /\ ctxLock' = ctxLock
            /\ q' = [q EXCEPT ![d].pc = "rank_wait",
                              ![d].epoch = psParams.current_epoch,
                              ![d].epoch_cyc = wcycle.params]
    /\ UNCHANGED <<pairingVars, stateLock, schedVars, shutdownChan, mainPc,
                   ctxVars, dispatched, envelopes, calls, clientVars>>

\* get_ranked_providers: state.lock().await is granted and
\* state.ranked_providers.clone() taken under it; a non-empty ranking is
\* kept in the context and its first element returned, an empty one ends
\* the request with 500; the context guard is dropped either way
QueryRankRead(d) ==
    /\ Running /\ q[d].pc = "rank_wait" /\ stateLock = "none"
    /\ ctxLock' = "none"
    /\ IF psRanked # <<>>
       THEN /\ ctxRanked' = psRanked
            /\ q' = [q EXCEPT ![d].pc = "ctx_wait2",
                              ![d].top = Head(psRanked)]
       ELSE /\ ctxRanked' = ctxRanked
            /\ q' = [q EXCEPT ![d] = Returned("internal_error")]
    /\ UNCHANGED <<pairingVars, stateLock, schedVars, shutdownChan, mainPc,
                   sessions, updates, dispatched, envelopes, calls, clientVars>>

\* variant: the session is read without the context lock
QuerySessionNoLock(d) ==
    /\ Running /\ q[d].pc = "ctx_wait2"
    /\ LET address == q[d].top.provider.address
           ledger == get_or_create_session(sessions, address)
       IN  /\ sessions' = ledger
           /\ q' = [q EXCEPT ![d].pc = "update",
                             ![d].session = ledger[address]]
    /\ UNCHANGED <<pairingVars, stateLock, ctxLock, schedVars, shutdownChan,
                   mainPc, ctxRanked, updates, dispatched, envelopes, calls, clientVars>>

\* second context.lock().await granted;
\* context.get_or_create_session(&provider_address).clone()
QuerySession(d) ==
    /\ Running /\ q[d].pc = "ctx_wait2" /\ ctxLock = "none"
    /\ ctxLock' = d
    /\ LET address == q[d].top.provider.address
           ledger == get_or_create_session(sessions, address)
       IN  /\ sessions' = ledger
           /\ q' = [q EXCEPT ![d].pc = "update",
                             ![d].session = ledger[address]]
    /\ UNCHANGED <<pairingVars, stateLock, schedVars, shutdownChan, mainPc,
                   ctxRanked, updates, dispatched, envelopes, calls, clientVars>>

\* variant: the context guard lives until the handler returns
QueryUpdateKeepsGuard(d) ==
    /\ Running /\ q[d].pc = "update"
    /\ LET address == q[d].top.provider.address
       IN  /\ sessions' = update_session(sessions, address)
           /\ updates' = IF address \in DOMAIN sessions
                         THEN [updates EXCEPT ![address] = @ + 1]
                         ELSE updates
    /\ q' = [q EXCEPT ![d].pc = "client"]
    /\ UNCHANGED <<pairingVars, stateLock, ctxLock, schedVars, shutdownChan,
                   mainPc, ctxRanked, dispatched, envelopes, calls, clientVars>>

\* variant: the session is cloned after update_session
QueryUpdateThenClone(d) ==
    /\ Running /\ q[d].pc = "update"
    /\ LET address == q[d].top.provider.address
       IN  /\ sessions' = update_session(sessions, address)
           /\ updates' = IF address \in DOMAIN sessions
                         THEN [updates EXCEPT ![address] = @ + 1]
                         ELSE updates
           /\ q' = [q EXCEPT ![d].pc = "client",
                             ![d].session = sessions'[address]]
    /\ ctxLock' = "none"
    /\ UNCHANGED <<pairingVars, stateLock, schedVars, shutdownChan, mainPc,
                   ctxRanked, dispatched, envelopes, calls, clientVars>>

\* context.update_session(&provider_address); the context guard is dropped
QueryUpdate(d) ==
    /\ Running /\ q[d].pc = "update"
    /\ LET address == q[d].top.provider.address
       IN  /\ sessions' = update_session(sessions, address)
           /\ updates' = IF address \in DOMAIN sessions
                         THEN [updates EXCEPT ![address] = @ + 1]
                         ELSE updates
    /\ ctxLock' = "none"
    /\ q' = [q EXCEPT ![d].pc = "client"]
    /\ UNCHANGED <<pairingVars, stateLock, schedVars, shutdownChan, mainPc,
                   ctxRanked, dispatched, envelopes, calls, clientVars>>

\* the RelaySession built from the session clone and the provider address
RelaySessionOf(task) ==
    [session_id |-> task.session.session_id,
     cu_sum |-> task.session.cu_sum,
     provider |-> task.top.provider.address,
     relay_num |-> task.session.relay_num]

\* ways the step from get_client to the relay call can go: the connection
\* cannot be opened, sign_data fails, the relay call is sent
ClientOutcomes(ranked) ==
    IF ranked.client THEN {"sign_failed", "sent"}
    ELSE IF ranked.provider.endpoints = 0 THEN {"no_endpoint"}
    ELSE {"connect_failed", "sign_failed", "sent"}

\* top_provider.get_client() returns: the probe's client is cloned when
\* there is one, else the first endpoint is connected to, which may fail.
\* With a client the envelope is built, serialized and signed (sign_data
\* returns Ok or Err) and the relay call is sent.
QueryGetClient(d) ==
    /\ Running /\ q[d].pc = "client"
    /\ \E outcome \in ClientOutcomes(q[d].top) :
         LET dials == IF q[d].top.client \/ outcome = "no_endpoint"
                      THEN 0 ELSE 1
         IN  IF outcome \in {"no_endpoint", "connect_failed"}
             THEN /\ q' = [q EXCEPT ![d] = Returned("internal_error")]
                  /\ envelopes' = envelopes
             ELSE /\ envelopes' = envelopes (+) SetToBag({RelaySessionOf(q[d])})
                  /\ q' = IF outcome = "sent"
                          THEN [q EXCEPT ![d].pc = "relay",
                                         ![d].connects = @ + dials,
                                         ![d].relays = @ + 1]
                          ELSE [q EXCEPT ![d] = Returned("internal_error")]
    /\ UNCHANGED <<pairingVars, stateLock, ctxLock, schedVars, shutdownChan,
                   mainPc, ctxVars, dispatched, calls, clientVars>>

\* variant: a failed relay call takes the session update back
QueryRelayRollback(d) ==
    /\ Running /\ q[d].pc = "relay"
    /\ \E replied \in BOOLEAN :
         /\ q' = [q EXCEPT ![d] = IF replied THEN Returned("ok")
                                  ELSE Returned("internal_error")]
         /\ sessions' = IF replied THEN sessions
                        ELSE [sessions EXCEPT
                                ![q[d].top.provider.address].relay_num = @ - 1,
                                ![q[d].top.provider.address].cu_sum =
                                    @ - CU_PER_RELAY]
    /\ UNCHANGED <<pairingVars, stateLock, ctxLock, schedVars, shutdownChan,
                   mainPc, ctxRanked, updates, dispatched, envelopes, calls, clientVars>>

\* variant: a failed relay call is tried again
QueryRelayRetries(d) ==
    /\ Running /\ q[d].pc = "relay"
    /\ \E replied \in BOOLEAN :
         q' = [q EXCEPT ![d] = IF replied THEN Returned("ok")
                                ELSE [q[d] EXCEPT !.pc = "client"]]
    /\ UNCHANGED <<pairingVars, stateLock, ctxLock, schedVars, shutdownChan,
                   mainPc, ctxVars, dispatched, envelopes, calls, clientVars>>

\* client.relay(relay_request).await returns the reply or an error
QueryRelay(d) ==
    /\ Running /\ q[d].pc = "relay"
    /\ \E replied \in BOOLEAN :
         q' = [q EXCEPT ![d] = IF replied THEN Returned("ok")
                                ELSE Returned("internal_error")]
    /\ UNCHANGED <<pairingVars, stateLock, ctxLock, schedVars, shutdownChan,
                   mainPc, ctxVars, dispatched, envelopes, calls, clientVars>>

QueryStep ==
    \E d \in Dispatchers :
        \/ NewRequest(d) \/ QueryCtxLock(d) \/ QueryReadEpoch(d)
        \/ QueryRankRead(d) \/ QuerySession(d) \/ QueryUpdate(d)
        \/ QueryGetClient(d) \/ QueryRelay(d)

\* ------------------------------------------------------------------- main

\* the startup poll: sleep 1 s, then get_ranked_providers takes the lock,
\* clones state.ranked_providers and drops the guard; the loop is left once
\* the ranking is not empty
MainPoll ==
    /\ mainPc = "poll" /\ stateLock = "none"
    /\ mainPc' = IF Len(psRanked) > 0 THEN "params" ELSE "poll"
    /\ UNCHANGED <<pairingVars, stateLock, ctxLock, schedVars, shutdownChan,
                   ctxVars, queryVars, calls, clientVars>>

\* get_sdk_pairing_params under the lock; the params are printed, the
\* context is built and the server task is spawned
MainParams ==
    /\ mainPc = "params" /\ stateLock = "none"
    /\ mainPc' = "serving"
    /\ UNCHANGED <<pairingVars, stateLock, ctxLock, schedVars, shutdownChan,
                   ctxVars, queryVars, calls, clientVars>>

\* start_server returns, task.await yields Ok and shutdown_tx.send(()).await
\* puts the one message the channel has room for
ServerReturn ==
    /\ mainPc = "serving" /\ shutdownChan = 0
    /\ shutdownChan' = 1
    /\ mainPc' = "signalled"
    /\ sched' = [sched EXCEPT !.signal_phase =
                    IF sched.pc \in WaitingPcs THEN "waiting" ELSE "refreshing"]
    /\ UNCHANGED <<pairingVars, stateLock, ctxLock, cycle, ctxVars,
                   queryVars, calls, clientVars>>

\* main returns: the runtime is dropped, and with it every task, its locals
\* and the guards it holds.  A task is dropped only where it awaits: the
\* writes refresh_state makes under its guard and the session read and
\* update of handle_query contain no await and run to their end
RuntimeDropped ==
    /\ sched.pc \notin {"pub_providers", "pub_last_updated", "pub_ranked"}
    /\ \A d \in Dispatchers : q[d].pc # "update"
    /\ mainPc' = "exited"
    /\ sched' = [SchedInit EXCEPT !.pc = "dropped"]
    /\ q' = [d \in Dispatchers |-> QueryInit]
    /\ stateLock' = "none"
    /\ ctxLock' = "none"
    /\ UNCHANGED <<pairingVars, cycle, shutdownChan, ctxVars, dispatched,
                   envelopes, calls, clientVars>>

\* bind or serve fails, unwrap() panics in the server task, task.await?
\* returns the JoinError from main
ServerPanic ==
    /\ mainPc = "serving"
    /\ RuntimeDropped

\* main returns Ok(()) after the send
ProcessExit ==
    /\ mainPc = "signalled"
    /\ RuntimeDropped

MainStep ==
    \/ MainPoll \/ MainParams \/ ServerReturn \/ ServerPanic \/ ProcessExit

\* ------------------------------------------------------------ specification

\* RankedProvider.client of one RankedProvider and its clones: the guard's
\* owner, the client it holds (0 for None, else the number of the
\* connection), whether the provider has a first endpoint, and as history
\* whether the probe left its client and how many connections get_client
\* has established and how often it was called
Handle(probed, endpoints) ==
    [guard |-> "none", client |-> IF probed THEN 1 ELSE 0,
     endpoints |-> endpoints, probed |-> probed, opened |-> 0, gets |-> 0]

\* a get_client call: position and what it returned
GetterInit == [pc |-> "idle", status |-> "none", client |-> 0]

\* no get_client call is modelled on its own
NoGetClient ==
    /\ handle = Handle(TRUE, 1)
    /\ getters = [d \in Dispatchers |-> GetterInit]

\* everything but the scheduler: nothing published, no lock held, main in
\* its startup poll, no request accepted
InitRest ==
    /\ psParams = NoParams
    /\ psProviders = <<>>
    /\ psRanked = <<>>
    /\ psLastUpdated = 0
    /\ wcycle = [params |-> 0, providers |-> 0, ranked_providers |-> 0,
                 last_updated |-> 0]
    /\ stateLock = "none"
    /\ ctxLock = "none"
    /\ shutdownChan = 0
    /\ mainPc = "poll"
    /\ ctxRanked = <<>>
    /\ sessions = EmptyLedger
    /\ updates = [a \in Addresses |-> 0]
    /\ q = [d \in Dispatchers |-> QueryInit]
    /\ dispatched = 0
    /\ envelopes = EmptyBag
    /\ calls = <<>>

Init ==
    /\ InitRest
    /\ sched = SchedInit
    /\ cycle = 0
    /\ NoGetClient

Next == SchedulerStep \/ MainStep \/ QueryStep

Spec == Init /\ [][Next]_vars

\* ------------------------------------------------ lock specification

\* the program under fair scheduling.  The runtime polls every task that is
\* ready: a task whose next step is a lock acquisition with the lock free,
\* or a step under a guard with no await, takes that step unless the lock
\* is taken first (weak fairness; a tokio Mutex, which serves its waiters
\* in arrival order, grants more).  Nothing is assumed of the network: a
\* fetch, a probe or a relay call may never return, and the listener need
\* not accept or end.
LockFairness ==
    /\ WF_vars(SchedParams) /\ WF_vars(RefreshClamp)
    /\ WF_vars(RefreshPublishParams) /\ WF_vars(MainParams)
    /\ WF_vars(RefreshPublishProviders) /\ WF_vars(RefreshPublishLastUpdated)
    /\ WF_vars(RefreshPublishRanked)
    /\ \A d \in Dispatchers :
          /\ WF_vars(QueryCtxLock(d)) /\ WF_vars(QueryReadEpoch(d))
          /\ WF_vars(QueryRankRead(d)) /\ WF_vars(QuerySession(d))
          /\ WF_vars(QueryUpdate(d))

\* the program over the one discovery document that lists ProviderA alone
LocksDocuments ==
    { [current_epoch |-> Num(3), time_left_to_next_pairing |-> Num(1),
       providers |-> <<ProviderA>>] }

LocksFetchOk == FetchReturns(LocksDocuments)

NextLocks ==
    \/ SchedParams \/ Tick \/ SchedShutdown \/ SchedSleepElapsed
    \/ RefreshClamp
    \/ RefreshFetchFail \/ LocksFetchOk \/ ProbeFinish \/ RefreshJoin
    \/ RefreshPublishParams \/ RefreshPublishProviders
    \/ RefreshPublishLastUpdated \/ RefreshPublishRanked
    \/ MainStep \/ QueryStep

SpecLocks == Init /\ [][NextLocks]_vars /\ LockFairness

\* ------------------------------------------- ledger specification

\* the session ledger on its own: get_or_create_session and update_session
\* called in any order on any address, each call recorded with the ledger
\* before and after it and the session it returned

LedgerGetOrCreate(address) ==
    /\ Len(calls) < MaxCalls
    /\ sessions' = get_or_create_session(sessions, address)
    /\ calls' = Append(calls, [op |-> "get_or_create_session",
                               address |-> address,
                               before |-> sessions,
                               after |-> sessions',
                               returned |-> sessions'[address]])
    /\ UNCHANGED <<pairingVars, stateLock, ctxLock, schedVars, shutdownChan,
                   mainPc, ctxRanked, updates, queryVars, clientVars>>

LedgerUpdate(address) ==
    /\ Len(calls) < MaxCalls
    /\ sessions' = update_session(sessions, address)
    /\ updates' = IF address \in DOMAIN sessions
                  THEN [updates EXCEPT ![address] = @ + 1]
                  ELSE updates
    /\ calls' = Append(calls, [op |-> "update_session",
                               address |-> address,
                               before |-> sessions,
                               after |-> sessions',
                               returned |-> NoSession])
    /\ UNCHANGED <<pairingVars, stateLock, ctxLock, schedVars, shutdownChan,
                   mainPc, ctxRanked, queryVars, clientVars>>

LedgerNext ==
    \E address \in Addresses :
        LedgerGetOrCreate(address) \/ LedgerUpdate(address)

SpecLedger == Init /\ [][LedgerNext]_vars

\* ------------------------------------------ ranking specification

\* one refresh cycle of the scheduler on its own, from the entry of
\* refresh_state to the select! after it, over documents of up to MaxProbes
\* providers and probes that take 10, 30 or 50 ms

RankLatencies == {10, 30, 50}

\* provider i of a document: stake i, and an endpoint unless bare
RankProvider(i, bare) ==
    [address |-> "p" \o ToString(i), stake |-> i,
     endpoints |-> IF bare THEN 0 ELSE 1]

\* documents listing providers 1..n in ascending stake; in the second
\* family provider 1 carries no endpoint
RankDocuments ==
    { [current_epoch |-> Num(3), time_left_to_next_pairing |-> Num(1),
       providers |-> [i \in 1..n |-> RankProvider(i, bare /\ i = 1)]] :
      n \in 0..MaxProbes, bare \in BOOLEAN }

RankFetchOk == FetchReturns(RankDocuments)

RankProbeFinish == ProbeReturns(RankLatencies)

\* refresh_state has just been entered for the first time
InitRank ==
    /\ InitRest
    /\ sched = [SchedInit EXCEPT !.pc = "clamp_wait"]
    /\ cycle = 1
    /\ NoGetClient

NextRank ==
    \/ RefreshClamp \/ RefreshFetchFail \/ RankFetchOk \/ RankProbeFinish
    \/ RefreshJoin
    \/ RefreshPublishParams \/ RefreshPublishProviders
    \/ RefreshPublishLastUpdated \/ RefreshPublishRanked
    \/ SchedParams \/ Tick

SpecRank == InitRank /\ [][NextRank]_vars

\* ------------------------------------------- client specification

\* get_client called concurrently on one RankedProvider and its clones

\* a task calls get_client: self.client.lock().await is pending
GetClientCall(d) ==
    /\ getters[d].pc \in {"idle", "done"}
    /\ handle.gets < MaxGets
    /\ handle' = [handle EXCEPT !.gets = @ + 1]
    /\ getters' = [getters EXCEPT ![d] = [GetterInit EXCEPT !.pc = "lock_wait"]]
    /\ UNCHANGED <<pairingVars, stateLock, ctxLock, schedVars, shutdownChan,
                   mainPc, ctxVars, queryVars, calls>>

\* variant: the client is examined without the guard being taken
GetClientLockNotTaken(d) ==
    /\ getters[d].pc = "lock_wait"
    /\ getters' = [getters EXCEPT ![d].pc = "locked"]
    /\ UNCHANGED <<pairingVars, stateLock, ctxLock, schedVars, shutdownChan,
                   mainPc, ctxVars, queryVars, calls, handle>>

\* self.client.lock().await granted
GetClientLock(d) ==
    /\ getters[d].pc = "lock_wait" /\ handle.guard = "none"
    /\ handle' = [handle EXCEPT !.guard = d]
    /\ getters' = [getters EXCEPT ![d].pc = "locked"]
    /\ UNCHANGED <<pairingVars, stateLock, ctxLock, schedVars, shutdownChan,
                   mainPc, ctxVars, queryVars, calls>>

\* under the guard: a client that is there is cloned and returned; with
\* none and no endpoint Err is returned; with none and an endpoint
\* connect() is awaited, the guard still held
GetClientExamine(d) ==
    /\ getters[d].pc = "locked"
    /\ IF handle.client # 0
       THEN /\ getters' = [getters EXCEPT ![d] = [pc |-> "done", status |-> "ok",
                                                  client |-> handle.client]]
            /\ handle' = [handle EXCEPT !.guard = "none"]
       ELSE IF handle.endpoints = 0
       THEN /\ getters' = [getters EXCEPT ![d] = [pc |-> "done", status |-> "err",
                                                  client |-> 0]]
            /\ handle' = [handle EXCEPT !.guard = "none"]
       ELSE /\ getters' = [getters EXCEPT ![d].pc = "connecting"]
            /\ handle' = handle
    /\ UNCHANGED <<pairingVars, stateLock, ctxLock, schedVars, shutdownChan,
                   mainPc, ctxVars, queryVars, calls>>

\* connect().await returns: Ok stores the new client in the handle and
\* returns its clone, Err leaves the handle as it is; the guard is dropped
GetClientConnect(d) ==
    /\ getters[d].pc = "connecting"
    /\ \E connected \in BOOLEAN :
         IF connected
         THEN /\ handle' = [handle EXCEPT !.client = 2 + handle.opened,
                                          !.opened = @ + 1,
                                          !.guard = "none"]
              /\ getters' = [getters EXCEPT ![d] = [pc |-> "done", status |-> "ok",
                                                    client |-> 2 + handle.opened]]
         ELSE /\ handle' = [handle EXCEPT !.guard = "none"]
              /\ getters' = [getters EXCEPT ![d] = [pc |-> "done", status |-> "err",
                                                    client |-> 0]]
    /\ UNCHANGED <<pairingVars, stateLock, ctxLock, schedVars, shutdownChan,
                   mainPc, ctxVars, queryVars, calls>>

\* a RankedProvider as probe_provider builds it (with the probe's client or
\* with None), with or without a first endpoint
InitClient ==
    /\ InitRest
    /\ sched = SchedInit
    /\ cycle = 0
    /\ handle \in {Handle(probed, endpoints) :
                     probed \in BOOLEAN, endpoints \in {0, 1}}
    /\ getters = [d \in Dispatchers |-> GetterInit]

NextClient ==
    \E d \in Dispatchers :
        \/ GetClientCall(d) \/ GetClientLock(d) \/ GetClientExamine(d)
        \/ GetClientConnect(d)

SpecClient == InitClient /\ [][NextClient]_vars

\* -------------------------------------------- stake specification

\* one refresh cycle over documents of up to MaxProviders providers, more
\* than parse_providers keeps, listed by ascending stake, by descending
\* stake, or with equal stakes among them

StakeOrders == {"ascending", "descending", "ties"}

\* provider i of n: the first two and the last one listed have an endpoint
StakeProvider(i, n, order) ==
    [address |-> "p" \o ToString(i),
     stake |-> CASE order = "ascending" -> i
                 [] order = "descending" -> n + 1 - i
                 [] order = "ties" -> (i % 3) + 1,
     endpoints |-> IF i \in {1, 2, n} THEN 1 ELSE 0]

\* the epoch tells the documents apart: 100 + 10 * n, + 1, 2 or 3 by order
StakeEpoch(n, order) ==
    100 + 10 * n + (CASE order = "ascending" -> 1
                [] order = "descending" -> 2
                [] order = "ties" -> 3)

StakeDocuments ==
    { [current_epoch |-> Num(StakeEpoch(n, order)),
       time_left_to_next_pairing |-> Num(1),
       providers |-> [i \in 1..n |-> StakeProvider(i, n, order)]] :
      n \in 0..MaxProviders, order \in StakeOrders }

StakeFetchOk == FetchReturns(StakeDocuments)

NextStake ==
    \/ RefreshClamp \/ RefreshFetchFail \/ StakeFetchOk \/ ProbeFinish
    \/ RefreshJoin
    \/ RefreshPublishParams \/ RefreshPublishProviders
    \/ RefreshPublishLastUpdated \/ RefreshPublishRanked
    \/ SchedParams \/ Tick

SpecStake == InitRank /\ [][NextStake]_vars

\* --------------------------------------- parameter specification

\* one refresh cycle over documents in which each of the four numeric
\* pairing parameters is a number, a number with a minus sign, a string
\* that is no number, or missing

ParamFields == <<"current_epoch", "time_left_to_next_pairing",
                 "spec_last_updated_block", "block_of_next_pairing">>

\* the value each field has when it is a number
ParamValues == <<3, 2, 7, 9>>

ParamShapes == {"number", "negative", "garbage", "missing"}

ParamRaw(shape, n) ==
    CASE shape = "number" -> Num(n)
      [] shape = "negative" -> Num(0 - n)
      [] OTHER -> NotANumber

ShapeCode(shape) ==
    CASE shape = "number" -> 0
      [] shape = "negative" -> 1
      [] shape = "garbage" -> 2
      [] shape = "missing" -> 3

\* the one provider of a document; its stake tells the documents apart
ParamProvider(shapes) ==
    [address |-> "pA",
     stake |-> 1 + ShapeCode(shapes[1]) + 4 * ShapeCode(shapes[2])
                 + 16 * ShapeCode(shapes[3]) + 64 * ShapeCode(shapes[4]),
     endpoints |-> 1]

\* the pairing object: a missing field is not a key of the document
ParamDocument(shapes) ==
    LET keys == {ParamFields[i] : i \in {j \in 1..4 : shapes[j] # "missing"}}
        index(k) == CHOOSE i \in 1..4 : ParamFields[i] = k
    IN  [k \in keys \cup {"providers"} |->
            IF k = "providers" THEN <<ParamProvider(shapes)>>
            ELSE ParamRaw(shapes[index(k)], ParamValues[index(k)])]

ParamDocuments == {ParamDocument(shapes) : shapes \in [1..4 -> ParamShapes]}

ParamFetchOk == FetchReturns(ParamDocuments)

NextParams ==
    \/ RefreshClamp \/ RefreshFetchFail \/ ParamFetchOk \/ ProbeFinish
    \/ RefreshJoin
    \/ RefreshPublishParams \/ RefreshPublishProviders
    \/ RefreshPublishLastUpdated \/ RefreshPublishRanked
    \/ SchedParams \/ Tick

SpecParams == InitRank /\ [][NextParams]_vars

\* ------------------------------------------ serialization specification

\* a 64-bit quantity written pow63 * 2^63 + n with n small: an unsigned
\* field has pow63 in {0, 1}, a signed one has pow63 in {-1, 0}
Big(pow63, n) == [pow63 |-> pow63, n |-> n]

\* `x as i64` of an unsigned 64-bit field: the bit pattern is kept, so a
\* value with bit 63 set wraps to value - 2^64
as_i64(x) == IF x.pow63 = 1 THEN Big(-1, x.n) ELSE x

\* "{}" of an integer: its decimal text, a minus sign included
Decimal(x) == [kind |-> "decimal", number |-> x]

\* "\"{}\"" of a string
Quoted(s) == [kind |-> "quoted", text |-> s]

\* one `key:value ` piece of the output
Segment(key, value) == [key |-> key, value |-> value]

byte_array_to_string(array, replace_double_quotes) ==
    [i \in DOMAIN array |->
        LET byte == array[i] IN
        CASE byte = 9 -> [escape |-> "\\t", byte |-> byte]
          [] byte = 10 -> [escape |-> "\\n", byte |-> byte]
          [] byte = 13 -> [escape |-> "\\r", byte |-> byte]
          [] byte = 92 -> [escape |-> "\\\\", byte |-> byte]
          [] byte = 34 /\ replace_double_quotes -> [escape |-> "\\\"", byte |-> byte]
          [] OTHER -> IF byte >= 32 /\ byte <= 126
                      THEN [escape |-> "literal", byte |-> byte]
                      ELSE [escape |-> "octal", byte |-> byte]]

serialize_qos_report(qos) ==
    <<Segment("latency", Quoted(qos.latency)),
      Segment("availability", Quoted(qos.availability)),
      Segment("sync", Quoted(qos.sync))>>

serialize_reported_provider(provider) ==
    <<Segment("address", Quoted(provider.address)),
      Segment("disconnections", Decimal(provider.disconnections)),
      Segment("errors", Decimal(provider.errors)),
      Segment("timestamp_s", Decimal(provider.timestamp_s))>>

serialize_reported_providers(key, providers) ==
    [i \in DOMAIN providers |->
        Segment(key, [kind |-> "message",
                      fields |-> serialize_reported_provider(providers[i])])]

\* the pieces one (key, value) pair contributes: none for an empty string
\* and for the number zero
serialize_key_value(key, value) ==
    CASE value.variant = "String" ->
            IF value.s = "" THEN <<>> ELSE <<Segment(key, Quoted(value.s))>>
      [] value.variant = "Number" ->
            IF value.n = Big(0, 0) THEN <<>> ELSE <<Segment(key, Decimal(value.n))>>
      [] value.variant = "Bytes" ->
            <<Segment(key, [kind |-> "escaped",
                            chars |-> byte_array_to_string(value.b, FALSE)])>>
      [] value.variant = "QoSReport" ->
            <<Segment(key, [kind |-> "message",
                            fields |-> serialize_qos_report(value.qos)])>>
      [] value.variant = "ReportedProviders" ->
            serialize_reported_providers(key, value.providers)

\* an Option is a sequence of length at most one
request_to_vec(request) ==
    <<[key |-> "spec_id", value |-> [variant |-> "String", s |-> request.spec_id]],
      [key |-> "content_hash",
       value |-> [variant |-> "Bytes", b |-> request.content_hash]],
      [key |-> "session_id",
       value |-> [variant |-> "Number", n |-> as_i64(request.session_id)]],
      [key |-> "cu_sum",
       value |-> [variant |-> "Number", n |-> as_i64(request.cu_sum)]],
      [key |-> "provider", value |-> [variant |-> "String", s |-> request.provider]],
      [key |-> "relay_num",
       value |-> [variant |-> "Number", n |-> as_i64(request.relay_num)]]>>
    \o (IF request.qos_report # <<>>
        THEN <<[key |-> "qos_report",
                value |-> [variant |-> "QoSReport", qos |-> request.qos_report[1]]]>>
        ELSE <<>>)
    \o <<[key |-> "epoch", value |-> [variant |-> "Number", n |-> request.epoch]]>>
    \o (IF request.unresponsive_providers # <<>>
        THEN <<[key |-> "unresponsive_providers",
                value |-> [variant |-> "ReportedProviders",
                           providers |-> request.unresponsive_providers]]>>
        ELSE <<>>)
    \o <<[key |-> "lava_chain_id",
          value |-> [variant |-> "String", s |-> request.lava_chain_id]]>>
    \o (IF request.qos_excellence_report # <<>>
        THEN <<[key |-> "qos_excellence_report",
                value |-> [variant |-> "QoSReport",
                           qos |-> request.qos_excellence_report[1]]]>>
        ELSE <<>>)

RECURSIVE PushAll(_)
PushAll(request_vec) ==
    IF request_vec = <<>> THEN <<>>
    ELSE serialize_key_value(Head(request_vec).key, Head(request_vec).value)
         \o PushAll(Tail(request_vec))

serialize_relay_session(request) == PushAll(request_to_vec(request))

\* generate_content_hash: the SHA-256 digest of the private data.  The
\* digest is not computed; a fixed non-empty byte string stands for it
generate_content_hash == <<200, 65>>

\* the RelaySession handle_query serializes and signs: spec and chain id
\* are the constants, the counters and the id come from the session clone,
\* no QoS report and no unresponsive provider is set
UnsignedRelaySession(task) ==
    [spec_id |-> "ETH1",
     content_hash |-> generate_content_hash,
     session_id |-> Big(0, task.session.session_id),
     cu_sum |-> Big(0, task.session.cu_sum),
     provider |-> task.top.provider.address,
     relay_num |-> Big(0, task.session.relay_num),
     qos_report |-> <<>>,
     epoch |-> Big(0, task.epoch),
     unresponsive_providers |-> <<>>,
     lava_chain_id |-> "lava-testnet-2",
     qos_excellence_report |-> <<>>]

\* the descriptors the function is applied to: every field empty or zero in
\* some and set in others, an unsigned field with bit 63 set, a negative
\* epoch, zero to two reported providers
Unsigned64 == {Big(0, 0), Big(0, 5), Big(1, 0)}

SomeQos == [latency |-> "1", availability |-> "1", sync |-> "1"]

Reported(address) ==
    [address |-> address, disconnections |-> Big(0, 1), errors |-> Big(0, 0),
     timestamp_s |-> Big(0, 7)]

RelaySessions ==
    [spec_id : {"", "ETH1"},
     content_hash : {<<>>, <<65, 9, 200>>},
     session_id : Unsigned64,
     cu_sum : Unsigned64,
     provider : {"", "pA"},
     relay_num : {Big(0, 0), Big(0, 1)},
     qos_report : {<<>>, <<SomeQos>>},
     epoch : {Big(0, 0), Big(0, 3), Big(0, -1)},
     unresponsive_providers : {<<>>, <<Reported("pB")>>,
                               <<Reported("pB"), Reported("pA")>>},
     lava_chain_id : {"", "lava-testnet-2"},
     qos_excellence_report : {<<>>, <<SomeQos>>}]

\* one call of serialize_relay_session, recorded with what it returned
SerializeCall ==
    /\ calls = <<>>
    /\ \E request \in RelaySessions :
          calls' = <<[op |-> "serialize_relay_session",
                      request |-> request,
                      returned |-> serialize_relay_session(request)]>>
    /\ UNCHANGED <<pairingVars, stateLock, ctxLock, schedVars, shutdownChan,
                   mainPc, ctxVars, queryVars, clientVars>>

SpecSerialize == Init /\ [][SerializeCall]_vars

\* ------------------------------------------------------------- properties

\* C1: whenever refresh_state does not hold the SDKPairingState lock (so at
\* every instant a reader can hold it) params, providers, ranked_providers
\* and last_updated were all last replaced by the same refresh cycle: no
\* reader sees some of the four fields from the new cycle and others from
\* the previous one.
C1_AtomicPublish ==
    stateLock # "sched" =>
        /\ wcycle.params = wcycle.providers
        /\ wcycle.providers = wcycle.last_updated
        /\ wcycle.last_updated = wcycle.ranked_providers

\* a second refresh has replaced the four fields and a handler has read
\* the state under the lock since
C1_Witness ==
    /\ stateLock = "none"
    /\ wcycle.ranked_providers = 2
    /\ \E d \in Dispatchers : q[d].epoch_cyc = 2

\* C2: in every dispatch that has selected its provider, the epoch read for
\* the envelope and the ranked provider the envelope goes to come from the
\* same refresh cycle.
C2_EpochAndProviderSameCycle ==
    \A d \in Dispatchers :
        q[d].pc \in {"ctx_wait2", "update", "client", "relay"} =>
            q[d].epoch_cyc = q[d].top.cyc

\* C3: the provider a dispatch selects is the provider at the head of the
\* ranking that is in the shared SDKPairingState when it selects (when that
\* ranking has a head): never the head of a ranking an earlier cycle
\* published and a later cycle replaced.
C3_SelectsHeadOfSharedRanking ==
    [][\A d \in Dispatchers :
          ( /\ q[d].pc \in {"state_wait", "rank_wait"}
            /\ q'[d].pc = "ctx_wait2"
            /\ psRanked # <<>> )
          => q'[d].top.provider.address = Head(psRanked).provider.address]_vars

\* C4: a dispatch that makes its provider selection while the ranking in the
\* shared SDKPairingState is empty returns the internal-error status at that
\* step, with no connection opened and no relay call sent.
C4_EmptyRankingIsInternalError ==
    [][\A d \in Dispatchers :
          ( /\ psRanked = <<>>
            /\ mainPc' # "exited"
            /\ \/ q[d].pc = "state_wait" /\ q'[d].pc \notin {"state_wait", "rank_wait"}
               \/ q[d].pc = "rank_wait" /\ q'[d].pc # "rank_wait" )
          => ( /\ q'[d].pc = "done"
               /\ q'[d].status = "internal_error"
               /\ q'[d].connects = 0
               /\ q'[d].relays = 0 )]_vars

\* C5: no two envelopes built for the same provider address carry the same
\* relay_num, whatever the interleaving of the dispatches that built them.
C5_NoRelayNumIssuedTwice ==
    \A e \in BagToSet(envelopes) :
        /\ CopiesIn(e, envelopes) = 1
        /\ \A f \in BagToSet(envelopes) :
              (f.provider = e.provider /\ f.relay_num = e.relay_num) => f = e

\* two dispatches to the same provider are in flight at once, both with
\* their envelope built and their relay call sent
C5_Witness ==
    /\ q["d1"].pc = "relay"
    /\ q["d2"].pc = "relay"
    /\ q["d1"].top.provider.address = q["d2"].top.provider.address

\* C6: a session is created with cu_sum = 0 and relay_num = 1; after the N-th
\* update for its address relay_num = 1 + N and cu_sum = 10 * N, so
\* cu_sum = 10 * (relay_num - 1) in every state; no step lowers a counter.
C6_SessionCountersExact ==
    [][\A a \in DOMAIN sessions' :
          /\ sessions'[a].relay_num = 1 + updates'[a]
          /\ sessions'[a].cu_sum = 10 * updates'[a]
          /\ sessions'[a].cu_sum = 10 * (sessions'[a].relay_num - 1)
          /\ a \in DOMAIN sessions =>
                /\ sessions'[a].relay_num >= sessions[a].relay_num
                /\ sessions'[a].cu_sum >= sessions[a].cu_sum
          /\ a \notin DOMAIN sessions =>
                /\ sessions'[a].relay_num = 1
                /\ sessions'[a].cu_sum = 0]_vars

\* a session has been updated twice
C6_Witness ==
    \E a \in DOMAIN sessions :
        updates[a] = 2 /\ sessions[a].relay_num = 3 /\ sessions[a].cu_sum = 20

\* C7: get_or_create_session leaves every entry the ledger already holds as
\* it is and adds an entry for its address only; two calls in a row for an
\* address the ledger did not hold return the same session_id, with
\* cu_sum = 0 and relay_num = 1 after both.
C7_GetOrCreateIdempotent ==
    \A i \in 1..Len(calls) :
        calls[i].op = "get_or_create_session" =>
            /\ DOMAIN calls[i].after = DOMAIN calls[i].before \cup {calls[i].address}
            /\ \A a \in DOMAIN calls[i].before :
                  calls[i].after[a] = calls[i].before[a]
            /\ ( /\ i < Len(calls)
                 /\ calls[i + 1].op = "get_or_create_session"
                 /\ calls[i + 1].address = calls[i].address
                 /\ calls[i].address \notin DOMAIN calls[i].before )
               => /\ calls[i + 1].returned.session_id = calls[i].returned.session_id
                  /\ calls[i].returned.cu_sum = 0
                  /\ calls[i].returned.relay_num = 1
                  /\ calls[i + 1].returned.cu_sum = 0
                  /\ calls[i + 1].returned.relay_num = 1

\* get_or_create_session was called twice in a row for an address the
\* ledger did not hold, while the ledger held another address's session
C7_Witness ==
    \E i \in 1..(Len(calls) - 1) :
        /\ calls[i].op = "get_or_create_session"
        /\ calls[i + 1].op = "get_or_create_session"
        /\ calls[i + 1].address = calls[i].address
        /\ calls[i].address \notin DOMAIN calls[i].before
        /\ DOMAIN calls[i].before # {}

\* C8: when handle_query opens a connection or sends the relay call, the
\* selected provider's session already stands at least one relay and 10
\* compute units above the snapshot the envelope is built from; and every
\* step a dispatch takes after its update, failures included, leaves the
\* session that far above the snapshot.
C8_UpdateBeforeRelayNeverRolledBack ==
    [][\A d \in Dispatchers :
          LET a == q[d].top.provider.address
          IN  /\ (q'[d].relays > q[d].relays \/ q'[d].connects > q[d].connects)
                 => /\ a \in DOMAIN sessions
                    /\ sessions[a].relay_num >= q[d].session.relay_num + 1
                    /\ sessions[a].cu_sum >= q[d].session.cu_sum + 10
              /\ q[d].pc \in {"client", "relay"}
                 => /\ a \in DOMAIN sessions'
                    /\ sessions'[a].relay_num >= q[d].session.relay_num + 1
                    /\ sessions'[a].cu_sum >= q[d].session.cu_sum + 10]_vars

\* the only request accepted so far has failed after its update, and the
\* session it selected stays incremented
C8_Witness ==
    /\ dispatched = 1
    /\ \E d \in Dispatchers :
          q[d].pc = "done" /\ q[d].status = "internal_error"
    /\ \E a \in DOMAIN sessions :
          sessions[a].relay_num = 2 /\ sessions[a].cu_sum = 10

\* C9 as stated: from the moment the shutdown message arrives during a
\* refresh, that refresh replaces none of params, providers, ranking and
\* timestamp of the shared SDKPairingState.
C9_NoPublishAfterSignal ==
    [][sched.signal_phase = "refreshing"
       => UNCHANGED <<psProviders, psRanked, psLastUpdated, wcycle>>]_vars

\* C9: a shutdown message that arrives during a refresh does not end that
\* refresh: until refresh_state has returned the scheduler does not take the
\* shutdown branch, and it stops from its select! only.
C9_SignalDoesNotCancelRefresh ==
    [][/\ sched.signal_phase = "refreshing" => sched'.pc # "stopped"
       /\ (sched.pc # "stopped" /\ sched'.pc = "stopped") => sched.pc = "select"
      ]_vars

\* the refresh that was in flight when the shutdown message arrived is
\* publishing, the message still unread
C9_Witness ==
    /\ sched.signal_phase = "refreshing"
    /\ sched.pc = "pub_ranked"
    /\ shutdownChan = 1
    /\ wcycle.params = cycle

\* C10: a shutdown message that arrives while the scheduler is Waiting ends
\* the wait without another refresh being started; from Stopped the
\* scheduler goes nowhere and writes the shared SDKPairingState no more.
C10_SignalPreemptsSleep ==
    [][/\ sched.signal_phase = "waiting"
          => sched'.pc \in {"loop", "select", "stopped", "dropped"}
       /\ sched.pc = "stopped"
          => /\ sched'.pc \in {"stopped", "dropped"}
             /\ UNCHANGED <<psParams, psProviders, psRanked, psLastUpdated>>
      ]_vars

\* C11: a refresh whose fetch fails leaves params, providers,
\* ranked_providers and last_updated as they were, with
\* time_left_to_next_pairing = 1, and puts the scheduler back at the top of
\* its loop; the select! it then enters sleeps one second.
C11_FailedRefreshContained ==
    [][/\ (sched.pc = "fetch" /\ sched'.pc \notin {"fetch", "probing", "dropped"})
          => /\ sched'.pc = "loop"
             /\ UNCHANGED <<psParams, psProviders, psRanked, psLastUpdated,
                            wcycle>>
             /\ psParams'.time_left_to_next_pairing = 1
       /\ ( /\ sched.pc = "loop" /\ sched'.pc = "select"
            /\ cycle > 0 /\ wcycle.params # cycle )
          => sched'.sleep_left = 1
      ]_vars

\* the second cycle failed: the scheduler waits one second, the state of
\* the first cycle is still published
C11_Witness ==
    /\ sched.pc = "select" /\ sched.sleep_left = 1
    /\ cycle = 2
    /\ wcycle.params = 1 /\ psLastUpdated = 1
    /\ psRanked # <<>>
    /\ psParams.time_left_to_next_pairing = 1

\* C12: when join_all returns, the ranking of the cycle holds exactly the
\* RankedProviders of the probes that succeeded, in non-decreasing latency;
\* a probe that has returned is not run again in the cycle; and the ranking
\* is published as it is, an empty one included.
C12_RankingIsSuccessfulProbesByLatency ==
    [][/\ (sched.pc = "probing" /\ sched'.pc = "publish_wait")
          => LET ok == {i \in 1..Len(sched.probes) :
                           sched.probes[i].status = "ok"}
                 ranked == sched'.ranked
             IN  /\ Len(ranked) = Cardinality(ok)
                 /\ \A i \in ok :
                       \E j \in 1..Len(ranked) : ranked[j] = sched.probes[i].ranked
                 /\ \A j \in 1..Len(ranked) :
                       \E i \in ok : ranked[j] = sched.probes[i].ranked
                 /\ \A j, k \in 1..Len(ranked) :
                       j < k => ranked[j].latency <= ranked[k].latency
       /\ (sched.pc = "probing" /\ sched'.pc = "probing")
          => \A i \in 1..Len(sched.probes) :
                sched.probes[i].status # "running"
                => sched'.probes[i] = sched.probes[i]
       /\ (sched.pc = "pub_ranked" /\ sched'.pc = "loop")
          => /\ psRanked' = sched.ranked
             /\ wcycle'.ranked_providers = cycle
      ]_vars

\* of three probes the first failed, the second took 30 ms and the third
\* 10 ms: the ranking is the third provider, then the second
C12_Witness ==
    /\ sched.pc = "publish_wait"
    /\ Len(sched.providers) = 3
    /\ Len(sched.ranked) = 2
    /\ sched.ranked[1].latency = 10 /\ sched.ranked[2].latency = 30
    /\ sched.ranked[1].provider.stake < sched.ranked[2].provider.stake

\* C13: whatever the interleaving of get_client calls on one handle, at most
\* one connection is established by them, every call that has returned a
\* client has returned the one the handle holds, and a handle that carries
\* the probe's client returns that client and no connection is opened.
C13_OneConnectionPerHandle ==
    /\ handle.opened <= 1
    /\ handle.probed => (handle.opened = 0 /\ handle.client = 1)
    /\ \A d \in Dispatchers :
          getters[d].status = "ok" => getters[d].client = handle.client
    /\ \A d \in Dispatchers :
          getters[d].pc = "connecting" =>
              (handle.guard = d /\ handle.client = 0)

\* both callers have returned the connection one of them opened
C13_Witness ==
    /\ handle.opened = 1 /\ ~handle.probed
    /\ \A d \in Dispatchers :
          getters[d].status = "ok" /\ getters[d].client = handle.client

\* C14: serialize_relay_session returns the reference encoding: the fields
\* in the fixed order spec_id, content_hash, session_id, cu_sum, provider,
\* relay_num, qos_report, epoch, unresponsive_providers, lava_chain_id,
\* qos_excellence_report, one key:value segment each, no segment for an
\* empty string, a zero number, an absent QoS report or an empty
\* unresponsive_providers list, the decimal value of the field for a
\* number that is not zero, and one segment under the same key for each
\* entry of unresponsive_providers.
C14_SerializesAsReference ==
    \A i \in DOMAIN calls :
        calls[i].op = "serialize_relay_session" =>
            LET r == calls[i].request
                Text(key, s) == IF s = "" THEN <<>> ELSE <<Segment(key, Quoted(s))>>
                Number(key, x) == IF x = Big(0, 0) THEN <<>>
                                  ELSE <<Segment(key, Decimal(x))>>
                Report(key, o) ==
                    IF o = <<>> THEN <<>>
                    ELSE <<Segment(key, [kind |-> "message",
                                         fields |-> serialize_qos_report(o[1])])>>
                Entries(key, l) ==
                    [j \in DOMAIN l |->
                        Segment(key, [kind |-> "message",
                                      fields |-> serialize_reported_provider(l[j])])]
            IN calls[i].returned =
                   Text("spec_id", r.spec_id)
                   \o <<Segment("content_hash",
                                [kind |-> "escaped",
                                 chars |-> byte_array_to_string(r.content_hash, FALSE)])>>
                   \o Number("session_id", r.session_id)
                   \o Number("cu_sum", r.cu_sum)
                   \o Text("provider", r.provider)
                   \o Number("relay_num", r.relay_num)
                   \o Report("qos_report", r.qos_report)
                   \o Number("epoch", r.epoch)
                   \o Entries("unresponsive_providers", r.unresponsive_providers)
                   \o Text("lava_chain_id", r.lava_chain_id)
                   \o Report("qos_excellence_report", r.qos_excellence_report)

\* C15: a dispatch never retries and never falls back to another provider.
\* From get_client on, a request either goes on to its one relay call with
\* the provider it selected (at most one connection opened, one relay call
\* issued) or returns internal_error; after the relay call it returns ok or
\* internal_error; it never goes back to an earlier step, and the step
\* that ends one request leaves every other request as it was.
C15_NoRetryNoFallback ==
    [][\A d \in Dispatchers :
          (Running' /\ q[d].pc \in {"client", "relay"} /\ q'[d] # q[d]) =>
              /\ \A e \in Dispatchers \ {d} : q'[e] = q[e]
              /\ IF q[d].pc = "client"
                 THEN \/ q'[d] = Returned("internal_error")
                      \/ /\ q'[d].pc = "relay"
                         /\ q'[d].top = q[d].top
                         /\ q'[d].relays = 1
                         /\ q'[d].connects <= 1
                 ELSE q'[d] \in {Returned("ok"), Returned("internal_error")}]_vars

\* one request has failed and returned internal_error while the other is
\* still in its relay call with its own provider
C15_Witness ==
    \E d, e \in Dispatchers :
        /\ d # e
        /\ q[d].pc = "done" /\ q[d].status = "internal_error"
        /\ q[e].pc = "relay" /\ q[e].relays = 1
        /\ envelopes # EmptyBag

\* C16: the scheduler task is running before the listener accepts requests
\* (main starts serving only after a refresh cycle has been started), and
\* the process never exits after the listener has ended without the
\* shutdown signal having been sent first, whatever ended the listener.
C16_SignalBeforeExit ==
    [][/\ (mainPc' = "serving") => (cycle' >= 1 /\ sched'.pc # "dropped")
       /\ (mainPc # "exited" /\ mainPc' = "exited") => mainPc = "signalled"]_vars

\* C17: the clamp comes before any network I/O and touches nothing else.
\* Whenever the discovery fetch or the probes of the current cycle are in
\* progress, time_left_to_next_pairing is 1 and params, providers,
\* ranked_providers and last_updated were last replaced by an earlier
\* cycle (or never); the step that enters the fetch writes only
\* time_left_to_next_pairing.
C17_ClampBeforeIO ==
    [][/\ (sched'.pc \in {"fetch", "probing"}) =>
             /\ psParams'.time_left_to_next_pairing = 1
             /\ wcycle'.params < cycle'
             /\ wcycle'.providers < cycle'
             /\ wcycle'.ranked_providers < cycle'
             /\ wcycle'.last_updated < cycle'
       /\ (sched.pc = "clamp_wait" /\ sched'.pc = "fetch") =>
             /\ psParams' = [psParams EXCEPT !.time_left_to_next_pairing = 1]
             /\ UNCHANGED <<psProviders, psRanked, psLastUpdated, wcycle>>]_vars

\* the second cycle is probing: the first cycle's epoch, providers and
\* ranking are still published, with the time left clamped to 1
C17_Witness ==
    /\ sched.pc = "probing" /\ cycle = 2
    /\ \E i \in DOMAIN sched.probes : sched.probes[i].status = "running"
    /\ psParams.time_left_to_next_pairing = 1
    /\ psParams.current_epoch = 4
    /\ wcycle.params = 1 /\ wcycle.ranked_providers = 1

\* C18: probe barrier.  When the fetch returns, exactly one probe task is
\* started for each parsed provider that has an endpoint and none for a
\* provider without one; the cycle goes on to its publish only from a
\* state in which none of those tasks is still running; and the shared
\* ranking is replaced only by the publish step, after the tasks are gone.
C18_ProbeBarrier ==
    [][/\ (sched.pc = "fetch" /\ sched'.pc = "probing") =>
             LET candidates == {i \in DOMAIN sched'.providers :
                                  sched'.providers[i].endpoints > 0}
             IN  /\ Len(sched'.probes) = Cardinality(candidates)
                 /\ \A i \in candidates :
                       Cardinality({j \in DOMAIN sched'.probes :
                           /\ sched'.probes[j].ranked.provider = sched'.providers[i]
                           /\ sched'.probes[j].status = "running"}) = 1
       /\ (sched.pc = "probing" /\ sched'.pc = "publish_wait") =>
             \A j \in DOMAIN sched.probes : sched.probes[j].status # "running"
       /\ (psRanked' # psRanked \/ wcycle'.ranked_providers # wcycle.ranked_providers) =>
             /\ sched.pc = "pub_ranked"
             /\ sched.probes = <<>>]_vars

\* a cycle has published a ranking of two providers out of three parsed:
\* the third has no endpoint and was not probed, the two probes both
\* finished before the publish
C18_Witness ==
    /\ wcycle.ranked_providers = 1
    /\ Len(psProviders) = 3 /\ Len(psRanked) = 2
    /\ \E i \in DOMAIN psProviders : psProviders[i].endpoints = 0
    /\ sched.probes = <<>>

\* C19: session entries are never deleted and session ids never change.
\* Every step keeps every address the ledger holds and leaves the
\* session_id stored for it as it was, whether or not the provider is
\* still in the published ranking.
C19_SessionsKeptIdsStable ==
    [][\A a \in DOMAIN sessions :
          /\ a \in DOMAIN sessions'
          /\ sessions'[a].session_id = sessions[a].session_id]_vars

\* the second cycle has published a ranking without a provider that was
\* dispatched to earlier: its session is still in the ledger, counted up
C19_Witness ==
    /\ wcycle.ranked_providers = 2
    /\ \E a \in DOMAIN sessions :
          /\ \A i \in DOMAIN psRanked : psRanked[i].provider.address # a
          /\ sessions[a].session_id = 11
          /\ sessions[a].relay_num > FIRST_RELAY_NUM

\* C20: after a successful refresh (all four fields published by the same
\* cycle) the published provider list is the top 10 by stake of the
\* providers parsed from the fetched document: at most 10 entries, as many
\* as were parsed when those are fewer, every entry a parsed provider, in
\* non-increasing order of stake, no parsed provider left out with a stake
\* strictly greater than one that was kept; and every provider of the
\* published ranking is in the published provider list.
C20_TopTenByStake ==
    ( /\ stateLock = "none"
      /\ wcycle.params >= 1
      /\ wcycle.providers = wcycle.params
      /\ wcycle.ranked_providers = wcycle.params
      /\ \E doc \in StakeDocuments :
            ParseNum(doc.current_epoch) = psParams.current_epoch ) =>
        LET doc == CHOOSE d \in StakeDocuments :
                       ParseNum(d.current_epoch) = psParams.current_epoch
            parsed == {doc.providers[i] : i \in DOMAIN doc.providers}
            kept == {psProviders[i] : i \in DOMAIN psProviders}
        IN  /\ Len(psProviders) <= 10
            /\ Len(psProviders) = IF Len(doc.providers) < 10
                                  THEN Len(doc.providers) ELSE 10
            /\ Cardinality(kept) = Len(psProviders)
            /\ kept \subseteq parsed
            /\ \A i \in 1..(Len(psProviders) - 1) :
                  psProviders[i].stake >= psProviders[i + 1].stake
            /\ \A x \in parsed \ kept : \A y \in kept : x.stake <= y.stake
            /\ \A i \in DOMAIN psRanked : psRanked[i].provider \in kept

\* a document of 12 providers in ascending stake was published: ten are
\* kept, the two left out are the ones of lowest stake, both with an
\* endpoint, and the one provider ranked is among the ten
C20_Witness ==
    /\ stateLock = "none"
    /\ wcycle.ranked_providers = 1
    /\ psParams.current_epoch = StakeEpoch(12, "ascending")
    /\ Len(psProviders) = 10
    /\ psProviders[1].stake = 12 /\ psProviders[10].stake = 3
    /\ Len(psRanked) = 1 /\ psRanked[1].provider.address = "p12"

\* C21: a numeric pairing parameter that is missing or does not parse is
\* published as 0 and the refresh goes through.  Once the fetch has
\* returned a document the cycle ends only by its publish, which replaces
\* params, providers, ranking and timestamp; each published parameter is
\* the document's number when it parses (a minus sign parses for
\* current_epoch only) and 0 otherwise; and the wait the scheduler starts
\* next lasts the published time_left_to_next_pairing.
C21_UnparseableIsZero ==
    [][/\ ( /\ sched.pc \in {"probing", "publish_wait", "pub_providers",
                             "pub_last_updated", "pub_ranked"}
            /\ sched'.pc = "loop" ) =>
             /\ wcycle'.params = cycle /\ wcycle'.providers = cycle
             /\ wcycle'.ranked_providers = cycle /\ wcycle'.last_updated = cycle
             /\ \A shapes \in [1..4 -> ParamShapes] :
                   psProviders' = <<ParamProvider(shapes)>> =>
                       \A i \in 1..4 :
                           psParams'[ParamFields[i]] =
                               CASE shapes[i] = "number" -> ParamValues[i]
                                 [] shapes[i] = "negative" /\ i = 1 ->
                                        0 - ParamValues[i]
                                 [] OTHER -> 0
       /\ (sched.pc = "loop" /\ sched'.pc = "select") =>
             sched'.sleep_left = psParams.time_left_to_next_pairing]_vars

\* a document whose current_epoch is garbage, whose time_left_to_next_pairing
\* is missing and whose other two parameters are numbers was published:
\* the two are 0, and the scheduler is in its next wait of 0 seconds
C21_Witness ==
    /\ wcycle.params = 1 /\ wcycle.ranked_providers = 1
    /\ psProviders = <<ParamProvider(<<"garbage", "missing", "number", "number">>)>>
    /\ psParams.current_epoch = 0
    /\ psParams.time_left_to_next_pairing = 0
    /\ psParams.spec_last_updated_block = 7
    /\ psParams.block_of_next_pairing = 9
    /\ sched.pc = "select" /\ sched.sleep_left = 0

\* C22: no task holds the context lock or the pairing-state lock while it
\* awaits network I/O.  While the scheduler is in its discovery fetch or
\* its probes it does not hold the state lock; while a dispatch is in
\* get_client or in its relay call it holds neither lock; so whoever holds
\* a lock at such a moment is another task, which no pending call delays.
C22_NoLockAcrossIO ==
    /\ sched.pc \in {"fetch", "probing"} => stateLock # "sched"
    /\ \A d \in Dispatchers :
          q[d].pc \in {"client", "relay"} => (ctxLock # d /\ stateLock # d)

\* one dispatch is in its relay call while the other holds the context
\* lock and the scheduler holds the state lock for its publish
C22_Witness ==
    \E d, e \in Dispatchers :
        /\ d # e
        /\ q[d].pc = "relay"
        /\ q[e].pc = "update" /\ ctxLock = e
        /\ stateLock = "sched"

\* C23: the lock protocol cannot deadlock.  Whoever holds the state lock
\* is the scheduler inside its publish, which waits for nothing; a
\* dispatch that holds the context lock waits at most for the state lock
\* and never for the context lock: tasks never wait on each other in a
\* cycle.  And under fair scheduling every lock acquisition is granted for
\* as long as the process runs: a dispatch that has entered its locked
\* part passes both its acquisitions of the context lock and those of the
\* state lock and leaves it, and the scheduler passes each of its
\* acquisitions of the state lock.
C23_LocksGrantedNoCycle ==
    /\ [](/\ stateLock = "sched" =>
                sched.pc \in {"pub_providers", "pub_last_updated", "pub_ranked"}
          /\ stateLock \in {"none", "sched"}
          /\ \A d \in Dispatchers :
                ctxLock = d => q[d].pc \in {"state_wait", "rank_wait", "update"})
    /\ \A d \in Dispatchers :
          (q[d].pc \in {"ctx_wait", "state_wait", "rank_wait", "ctx_wait2",
                        "update"})
              ~> (q[d].pc \in {"client", "done"} \/ ~Running)
    /\ (sched.pc \in {"loop", "clamp_wait", "publish_wait", "pub_providers",
                      "pub_last_updated", "pub_ranked"})
           ~> (sched.pc \in {"select", "fetch"} \/ ~Running)

\* both dispatches are in their locked part at once, one holding the
\* context lock and waiting for the state lock the scheduler holds, the
\* other waiting for the context lock
C23_Witness ==
    \E d, e \in Dispatchers :
        /\ d # e
        /\ ctxLock = d /\ q[d].pc \in {"state_wait", "rank_wait"}
        /\ stateLock = "sched"
        /\ q[e].pc \in {"ctx_wait", "ctx_wait2"}

\* C24: the envelope carries the counters as they were before the
\* dispatch's own update.  The dispatch that makes the k-th update of an
\* address goes on with relay_num = k, cu_sum = 10 * (k - 1) and the
\* session_id of the ledger entry; the text it signs and sends is the
\* serialization of exactly those values: a relay_num segment with k, a
\* session_id segment with that id, a cu_sum segment with 10 * (k - 1)
\* when k > 1 and no cu_sum segment at all for the first relay.
C24_EnvelopeCarriesPreUpdateCounters ==
    [][\A d \in Dispatchers :
          LET a == q'[d].top.provider.address
              snapshot == q'[d].session
          IN  /\ (q[d].pc = "update" /\ q'[d].pc = "client") =>
                    /\ snapshot.relay_num = updates'[a]
                    /\ snapshot.cu_sum = 10 * (updates'[a] - 1)
                    /\ snapshot.session_id = sessions'[a].session_id
              /\ (q[d].pc = "client" /\ q'[d].pc = "relay") =>
                    /\ snapshot = q[d].session
                    /\ snapshot.relay_num >= 1
                    /\ snapshot.cu_sum = 10 * (snapshot.relay_num - 1)
                    /\ snapshot.session_id = sessions'[a].session_id
                    /\ LET text == serialize_relay_session(
                                       UnsignedRelaySession(q'[d]))
                       IN  /\ \E i \in DOMAIN text :
                                 text[i] = Segment("relay_num",
                                     Decimal(Big(0, snapshot.relay_num)))
                           /\ \E i \in DOMAIN text :
                                 text[i] = Segment("session_id",
                                     Decimal(Big(0, snapshot.session_id)))
                           /\ IF snapshot.relay_num = 1
                              THEN \A i \in DOMAIN text : text[i].key # "cu_sum"
                              ELSE \E i \in DOMAIN text :
                                      text[i] = Segment("cu_sum",
                                          Decimal(Big(0, snapshot.cu_sum)))]_vars

\* the first and the second dispatch to one provider are both in their
\* relay call: relay_num 1 with cu_sum 0 and relay_num 2 with cu_sum 10,
\* under one session_id
C24_Witness ==
    \E d, e \in Dispatchers :
        /\ q[d].pc = "relay" /\ q[e].pc = "relay"
        /\ q[d].top.provider.address = q[e].top.provider.address
        /\ q[d].session.relay_num = 1 /\ q[d].session.cu_sum = 0
        /\ q[e].session.relay_num = 2 /\ q[e].session.cu_sum = 10
        /\ q[d].session.session_id = q[e].session.session_id

====
